---- MODULE Spec2Model ----
(***************************************************************************)
(* Model of the BTC/USDT large-trade tracker.                              *)
(*                                                                         *)
(* Two variants of one pipeline live in the repository:                    *)
(*   variant "id"   : src/BTC_Tracking.py  (pagination by fromId)          *)
(*   variant "time" : src/test.py          (pagination by startTime)       *)
(* main() runs get_trades -> process_trades -> find_largest_trades ->      *)
(* report.  Every HTTP request of get_trades is one step of the model; the *)
(* exchange is a finite trade history with contiguous increasing trade IDs *)
(* and non-decreasing timestamps, served in pages of at most `limit`.      *)
(*                                                                         *)
(* Decimal strings are tuples of characters with one fractional digit;     *)
(* float() parses them to fixed point: quantities and prices are counted   *)
(* in tenths, notional values (quantity * price) in hundredths.            *)
(***************************************************************************)
EXTENDS Integers, Sequences, FiniteSets, TLC

VARIABLES variant, history, start_time, end_time, limit, n,
          pc, params, trades, request_count, sent, failed, returned,
          df, grouped, largest, output

vars == <<variant, history, start_time, end_time, limit, n,
          pc, params, trades, request_count, sent, failed, returned,
          df, grouped, largest, output>>

(* ------------------------------ bounds --------------------------------- *)
MaxTrades == 3
MaxTime == 3
MaxLimit == 2
MaxRankTrades == 3
MaxRankTime == 2
MaxN == 2

\* The loop never comes near this cap in the code as written (at most
\* Len(history) + 1 requests); it only keeps a non-advancing cursor finite.
MaxRequests == MaxTrades + 3

(* ----------------------------- constants ------------------------------- *)
DefaultN == 5

Header == "Timestamp (us)    Amount (BTC)    Amount (USDT)    Side"
Rule == "------------------------------------------------------------"

Variants == {"id", "time"}

Quantities == { <<"1", ".", "0">>, <<"0", ".", "5">> }

(* ------------------------------ helpers -------------------------------- *)
Range(s) == { s[i] : i \in 1..Len(s) }

Last(s) == s[Len(s)]

Take(s, k) == SubSeq(s, 1, IF k < Len(s) THEN k ELSE Len(s))

Min(a, b) == IF a <= b THEN a ELSE b

(* ------------------------- float(): str -> number ---------------------- *)
DigitVal(c) ==
  CASE c = "0" -> 0 [] c = "1" -> 1 [] c = "2" -> 2 [] c = "3" -> 3
    [] c = "4" -> 4 [] c = "5" -> 5 [] c = "6" -> 6 [] c = "7" -> 7
    [] c = "8" -> 8 [] c = "9" -> 9

RECURSIVE DigitsValue(_)
DigitsValue(d) ==
  IF d = <<>> THEN 0
  ELSE DigitsValue(SubSeq(d, 1, Len(d) - 1)) * 10 + DigitVal(d[Len(d)])

\* value of a decimal string with one fractional digit, in tenths
float(s) == DigitsValue(SelectSeq(s, LAMBDA c : c # "."))

(* ------------------------------ exchange ------------------------------- *)
\* GET /aggTrades: the trades matching the filters present in the request,
\* in trade-ID order, at most `limit` of them.
Matches(t, p) ==
  /\ ("startTime" \in DOMAIN p) => t.T >= p.startTime
  /\ ("endTime" \in DOMAIN p) => t.T <= p.endTime
  /\ ("fromId" \in DOMAIN p) => t.a >= p.fromId

ServePage(h, p) == Take(SelectSeq(h, LAMBDA t : Matches(t, p)), p.limit)

(* ------------------------------ get_trades ----------------------------- *)
InitialParams(v, s, e, l) ==
  IF v = "id"
  THEN [symbol |-> "BTCUSDT", startTime |-> s, limit |-> l]
  ELSE [symbol |-> "BTCUSDT", startTime |-> s, endTime |-> e, limit |-> l]

\* faulty alternative: the next page starts at the last trade already fetched
NextFromIdSame(data) == Last(data).a

NextFromId(data) == Last(data).a + 1

\* faulty alternative: the next page starts at the last timestamp already fetched
NextStartTimeSame(data) == Last(data).T

NextStartTime(data) == Last(data).T + 1

\* params after a non-empty page, before the stop test
NextParams(v, p, data) ==
  IF v = "id"
  THEN [symbol |-> p.symbol, fromId |-> NextFromId(data), limit |-> p.limit]
  ELSE [p EXCEPT !.startTime = NextStartTime(data)]

\* the stop test after a non-empty page
ReachedEnd(v, data, np, e) ==
  IF v = "id" THEN Last(data).T >= e ELSE np.startTime >= e

\* faulty alternative: the post-fetch filter is left out
WindowFilterNone(ts, s, e) == ts

WindowFilter(ts, s, e) == SelectSeq(ts, LAMBDA t : s <= t.T /\ t.T <= e)

\* what get_trades returns once the loop has been left by a break
ReturnValue(v, ts, s, e) == IF v = "id" THEN WindowFilter(ts, s, e) ELSE ts

\* faulty alternative: the except clause hands back what was accumulated
ReturnPartial(ts) == ts

\* what get_trades returns from the except clause
OnRequestException(ts) == <<>>

(* ----------------------------- process_trades -------------------------- *)
TsCol(v) == IF v = "id" THEN "T" ELSE "timestamp_us"

Side(m) == IF m THEN "SELL" ELSE "BUY"

Normalize(v, t) ==
  (TsCol(v) :> t.T) @@
  [amount_btc |-> float(t.q),
   amount_usdt |-> float(t.q) * float(t.p),
   side |-> Side(t.m)]

\* pd.DataFrame(list of dicts): the columns are the keys of the dicts, so an
\* empty list gives a frame with no columns at all
DataFrame(rows) ==
  [columns |-> UNION { DOMAIN rows[i] : i \in 1..Len(rows) }, rows |-> rows]

process_trades(v, ts) == DataFrame([i \in 1..Len(ts) |-> Normalize(v, ts[i])])

(* --------------------------- find_largest_trades ----------------------- *)
KeyCols(v) == {TsCol(v), "side"}

\* groupby / duplicated on a column the frame does not have raises KeyError
KeyError(v, frame) == ~(KeyCols(v) \subseteq frame.columns)

SideLess(a, b) == a = "BUY" /\ b = "SELL"

KeyLess(k1, k2) == k1[1] < k2[1] \/ (k1[1] = k2[1] /\ SideLess(k1[2], k2[2]))

RECURSIVE SortKeys(_)
SortKeys(K) ==
  IF K = {} THEN <<>>
  ELSE LET k == CHOOSE x \in K : \A y \in K \ {x} : KeyLess(x, y)
       IN <<k>> \o SortKeys(K \ {k})

\* faulty alternative: grouping by timestamp alone
RowKeyTimestampOnly(v, r) == <<r[TsCol(v)], "BUY">>

RowKey(v, r) == <<r[TsCol(v)], r.side>>

RECURSIVE SumCol(_, _)
SumCol(rows, col) ==
  IF rows = <<>> THEN 0 ELSE rows[1][col] + SumCol(Tail(rows), col)

GroupRow(v, rows, k) ==
  LET members == SelectSeq(rows, LAMBDA r : RowKey(v, r) = k)
  IN (TsCol(v) :> k[1]) @@
     [side |-> k[2],
      amount_btc |-> SumCol(members, "amount_btc"),
      amount_usdt |-> SumCol(members, "amount_usdt")]

\* df.groupby([ts, 'side']).agg(sum).reset_index(): one row per key, keys sorted
groupby(v, frame) ==
  LET keys == SortKeys({ RowKey(v, r) : r \in Range(frame.rows) })
  IN [columns |-> frame.columns,
      rows |-> [i \in 1..Len(keys) |-> GroupRow(v, frame.rows, keys[i])]]

\* faulty alternative: head(k) instead of nlargest(k)
FirstIndex(rows, col) == 1

FirstMaxIndex(rows, col) ==
  CHOOSE i \in 1..Len(rows) :
    /\ \A j \in 1..Len(rows) : rows[j][col] <= rows[i][col]
    /\ \A j \in 1..(i - 1) : rows[j][col] < rows[i][col]

RemoveAt(s, i) == SubSeq(s, 1, i - 1) \o SubSeq(s, i + 1, Len(s))

\* DataFrame.nlargest(k, col), keep='first'
RECURSIVE nlargest(_, _, _)
nlargest(rows, k, col) ==
  IF k <= 0 \/ rows = <<>> THEN <<>>
  ELSE LET i == FirstMaxIndex(rows, col)
       IN <<rows[i]>> \o nlargest(RemoveAt(rows, i), k - 1, col)

(* -------------------------------- report ------------------------------- *)
\* round(x, 3) of a fixed-point value counted in 1/unit: thousandths
Round3(x, unit) ==
  (x \div unit) * 1000 + (2 * (x % unit) * 1000 + unit) \div (2 * unit)

FormatRow(v, x) ==
  [timestamp_us |-> x[TsCol(v)],
   amount_btc |-> Round3(x.amount_btc, 10),
   amount_usdt |-> Round3(x.amount_usdt, 100),
   side |-> x.side]

ReportLines(v, rows) ==
  <<Header, Rule>> \o [i \in 1..Len(rows) |-> FormatRow(v, rows[i])]

(* ------------------------------ initial states ------------------------- *)
NoFrame == [columns |-> {}, rows |-> <<>>]

NonDecreasing(k) ==
  { ts \in [1..k -> 1..MaxTime] : \A i \in 1..(k - 1) : ts[i] <= ts[i + 1] }

FirstQuantity == <<"1", ".", "0">>
FirstPrice == <<"5", "0", "0", "0", "0", ".", "0">>

\* a trade history of the exchange: contiguous IDs 1..k, timestamps ts,
\* taker sides alternating
TradeHistory(k, ts) ==
  [i \in 1..k |->
     [a |-> i, T |-> ts[i], m |-> (i % 2 = 0),
      q |-> FirstQuantity, p |-> FirstPrice]]

RankTrade ==
  [a : {0}, T : 1..MaxRankTime, m : BOOLEAN, q : Quantities, p : {FirstPrice}]

\* a trade list handed to process_trades: f's trades, numbered 1..k
RankInput(k, f) == [i \in 1..k |-> [f[i] EXCEPT !.a = i]]

Pipeline0 ==
  /\ df = NoFrame
  /\ grouped = NoFrame
  /\ largest = <<>>
  /\ output = <<>>

\* main(): a window, an exchange, and get_trades about to send its first request
Init ==
  /\ \E k \in 0..MaxTrades : \E ts \in NonDecreasing(k) :
       history = TradeHistory(k, ts)
  /\ variant \in Variants
  /\ start_time \in 1..MaxTime
  /\ end_time \in start_time..MaxTime
  /\ limit \in 1..MaxLimit
  /\ n = DefaultN
  /\ pc = "fetch"
  /\ params = InitialParams(variant, start_time, end_time, limit)
  /\ trades = <<>>
  /\ request_count = 0
  /\ sent = <<>>
  /\ failed = FALSE
  /\ returned = <<>>
  /\ Pipeline0

\* process_trades / find_largest_trades(df, n) applied to an arbitrary trade list
InitRank ==
  /\ \E k \in 0..MaxRankTrades : \E f \in [1..k -> RankTrade] :
       trades = RankInput(k, f)
  /\ variant \in Variants
  /\ history = <<>>
  /\ start_time = 1
  /\ end_time = MaxRankTime
  /\ limit = 1
  /\ n \in 1..MaxN
  /\ pc = "fetched"
  /\ params = InitialParams(variant, start_time, end_time, limit)
  /\ request_count = 0
  /\ sent = <<>>
  /\ failed = FALSE
  /\ returned = trades
  /\ Pipeline0

(* -------------------------------- actions ------------------------------ *)
\* one iteration of the while loop whose request succeeds
GetPage ==
  /\ pc = "fetch"
  /\ Len(sent) < MaxRequests
  /\ sent' = Append(sent, params)
  /\ LET data == ServePage(history, params) IN
       IF data = <<>>
       THEN /\ returned' = ReturnValue(variant, trades, start_time, end_time)
            /\ pc' = "fetched"
            /\ UNCHANGED <<trades, request_count, params>>
       ELSE LET all == trades \o data
                np == NextParams(variant, params, data)
                stop == ReachedEnd(variant, data, np, end_time)
            IN /\ trades' = all
               /\ request_count' = request_count + 1
               /\ params' = IF variant = "id" /\ stop THEN params ELSE np
               /\ IF stop
                  THEN /\ returned' = ReturnValue(variant, all, start_time, end_time)
                       /\ pc' = "fetched"
                  ELSE /\ returned' = returned
                       /\ pc' = "fetch"
  /\ UNCHANGED <<variant, history, start_time, end_time, limit, n, failed,
                 df, grouped, largest, output>>

\* one iteration whose request raises RequestException
RequestFails ==
  /\ pc = "fetch"
  /\ Len(sent) < MaxRequests
  /\ sent' = Append(sent, params)
  /\ failed' = TRUE
  /\ returned' = OnRequestException(trades)
  /\ pc' = "fetched"
  /\ UNCHANGED <<variant, history, start_time, end_time, limit, n, params,
                 trades, request_count, df, grouped, largest, output>>

ProcessTrades ==
  /\ pc = "fetched"
  /\ df' = process_trades(variant, returned)
  /\ pc' = "processed"
  /\ UNCHANGED <<variant, history, start_time, end_time, limit, n, params,
                 trades, request_count, sent, failed, returned,
                 grouped, largest, output>>

FindLargestTrades ==
  /\ pc = "processed"
  /\ IF KeyError(variant, df)
     THEN /\ pc' = "raised"
          /\ UNCHANGED <<grouped, largest>>
     ELSE /\ grouped' = groupby(variant, df)
          /\ largest' = nlargest(grouped'.rows, n, "amount_usdt")
          /\ pc' = "ranked"
  /\ UNCHANGED <<variant, history, start_time, end_time, limit, n, params,
                 trades, request_count, sent, failed, returned, df, output>>

Report ==
  /\ pc = "ranked"
  /\ output' = ReportLines(variant, largest)
  /\ pc' = "done"
  /\ UNCHANGED <<variant, history, start_time, end_time, limit, n, params,
                 trades, request_count, sent, failed, returned,
                 df, grouped, largest>>

Next == GetPage \/ RequestFails \/ ProcessTrades \/ FindLargestTrades \/ Report

NextRank == ProcessTrades \/ FindLargestTrades \/ Report

Spec == Init /\ [][Next]_vars

\* the program is one sequential thread: it always takes its next step
FairSpec == Init /\ [][Next]_vars /\ WF_vars(Next)

SpecRank == InitRank /\ [][NextRank]_vars

(* ================================ claims =============================== *)
InWindow(t) == start_time <= t.T /\ t.T <= end_time

IdsDistinct(s) == \A i, j \in 1..Len(s) : i # j => s[i].a # s[j].a

FetchReturned == pc # "fetch" /\ ~failed

\* C1: ID-based fetch is complete: when no request fails, get_trades of
\* BTC_Tracking.py returns every trade of the history with
\* start <= T <= end, trades with T = end and trades beyond a page boundary
\* included.
IdFetchComplete ==
  (variant = "id" /\ FetchReturned) =>
    \A i \in 1..Len(history) :
      InWindow(history[i]) => history[i] \in Range(returned)

\* C2: time-based fetch is complete: when no request fails, get_trades of
\* test.py returns every trade of the history with start <= T <= end, trades
\* sharing the timestamp of a page's last trade and trades with T = end
\* included.
TimeFetchComplete ==
  (variant = "time" /\ FetchReturned) =>
    \A i \in 1..Len(history) :
      InWindow(history[i]) => history[i] \in Range(returned)

\* C3: the fetch is duplicate-free: in both variants neither the accumulated
\* list nor the returned list ever holds one trade ID twice.
NoDuplicateTrades == IdsDistinct(trades) /\ IdsDistinct(returned)

NoDuplicateTradesWitness ==
  /\ pc = "fetched"
  /\ ~failed
  /\ request_count >= 2
  /\ Len(returned) >= 2

\* C4: a request that raises RequestException makes get_trades return the
\* empty list, whatever was accumulated, and no request is sent after it.
FailedFetchReturnsEmpty ==
  [][ (failed' => returned' = <<>>) /\ (failed => sent' = sent) ]_vars

FailedFetchReturnsEmptyWitness ==
  /\ failed
  /\ request_count >= 1
  /\ trades # <<>>
  /\ returned = <<>>
  /\ Len(sent) = request_count + 1

\* C5: when get_trades returns the empty list, the pipeline runs to
\* completion without raising, the grouped table has no rows, and the report
\* is the header line and the separator rule alone.
EmptyFetchReportsHeaderOnly ==
  (pc # "fetch" /\ returned = <<>>) =>
    /\ pc # "raised"
    /\ pc = "done" => (grouped.rows = <<>> /\ output = <<Header, Rule>>)

\* C6: the fetch loop terminates: it sends at most one request per trade of
\* the history plus one, and eventually leaves the loop (by a break or by
\* the error return).
FetchTerminates ==
  /\ [](Len(sent) <= Len(history) + 1)
  /\ <>(pc # "fetch")

FetchTerminatesWitness ==
  /\ pc # "fetch"
  /\ ~failed
  /\ Len(history) >= 2
  /\ Len(sent) = Len(history) + 1

\* C7: the pagination cursor strictly advances: every fromId (startTime in
\* the time-based variant) sent after a successful non-empty page is greater
\* than the one sent before it, and the cursor of the next request is greater
\* than the ID (timestamp) of every trade accumulated so far.  The first
\* request of the ID-based variant carries no fromId; the fromId that follows
\* it is above every ID of the page it produced.
HasCursor(p) == IF variant = "id" THEN "fromId" \in DOMAIN p ELSE TRUE

Cursor(p) == IF variant = "id" THEN p.fromId ELSE p.startTime

CursorField(t) == IF variant = "id" THEN t.a ELSE t.T

CursorLess(p1, p2) ==
  /\ HasCursor(p2)
  /\ HasCursor(p1) => Cursor(p1) < Cursor(p2)

CursorAdvances ==
  /\ \A k \in 1..(Len(sent) - 1) : CursorLess(sent[k], sent[k + 1])
  /\ (pc = "fetch" /\ sent # <<>>) =>
       /\ CursorLess(sent[Len(sent)], params)
       /\ \A t \in Range(trades) : CursorField(t) < Cursor(params)

CursorAdvancesWitness ==
  /\ pc = "fetch"
  /\ request_count >= 2
  /\ Len(trades) >= 2

\* C8: grouping is exact: the grouped table has exactly one row per distinct
\* (timestamp, side) pair of the normalized trades, and the row's amount_btc
\* and amount_usdt are the sums over all and only the trades with that pair.
RECURSIVE SumOver(_, _, _)
SumOver(I, rows, col) ==
  IF I = {} THEN 0
  ELSE LET i == CHOOSE x \in I : TRUE
       IN rows[i][col] + SumOver(I \ {i}, rows, col)

PairOf(r) == <<r[TsCol(variant)], r.side>>

Grouped == pc \in {"ranked", "done"}

GroupingExact ==
  Grouped =>
    LET rows == df.rows
        g == grouped.rows
        pairs == { PairOf(rows[j]) : j \in 1..Len(rows) }
    IN /\ Len(g) = Cardinality(pairs)
       /\ \A k \in pairs : \E i \in 1..Len(g) : PairOf(g[i]) = k
       /\ \A i \in 1..Len(g) :
            LET I == { j \in 1..Len(rows) : PairOf(rows[j]) = PairOf(g[i]) }
            IN /\ I # {}
               /\ g[i].amount_btc = SumOver(I, rows, "amount_btc")
               /\ g[i].amount_usdt = SumOver(I, rows, "amount_usdt")

\* two BUY trades at one timestamp, 1.0 and 0.5 at 50000.0: one row,
\* 1.5 (15 tenths) and 75000.00 (7500000 hundredths)
GroupingExactWitness ==
  /\ Grouped
  /\ Len(returned) = 2
  /\ returned[1].T = returned[2].T
  /\ ~returned[1].m /\ ~returned[2].m
  /\ returned[1].q = <<"1", ".", "0">>
  /\ returned[2].q = <<"0", ".", "5">>
  /\ Len(grouped.rows) = 1
  /\ grouped.rows[1].side = "BUY"
  /\ grouped.rows[1].amount_btc = 15
  /\ grouped.rows[1].amount_usdt = 7500000

\* C9: ranking returns the top N: the result has min(N, G) rows of the
\* grouped table, in non-increasing order of summed notional value, and no
\* group left out has a larger notional value than a returned one.
TopNRanking ==
  Grouped =>
    LET g == grouped.rows
    IN /\ Len(largest) = Min(n, Len(g))
       /\ \A i \in 1..(Len(largest) - 1) :
            largest[i].amount_usdt >= largest[i + 1].amount_usdt
       /\ \A i \in 1..Len(largest) : largest[i] \in Range(g)
       /\ \A i, j \in 1..Len(largest) : i # j => largest[i] # largest[j]
       /\ \A r \in Range(g) \ Range(largest) :
            \A x \in Range(largest) : r.amount_usdt <= x.amount_usdt

TopNRankingWitness ==
  /\ Grouped
  /\ n = 2
  /\ Len(grouped.rows) = 3
  /\ Len(largest) = 2
  /\ largest[1] # grouped.rows[1]
  /\ \E r \in Range(grouped.rows) \ Range(largest) :
       \A x \in Range(largest) : r.amount_usdt < x.amount_usdt

\* C10: get_trades never returns a trade outside [start, end]: the filter of
\* the ID-based variant removes the overshoot of the final page and nothing
\* inside the window, and the time-based variant accumulates no trade outside
\* the window.
ReturnedInWindow ==
  pc # "fetch" =>
    /\ \A t \in Range(returned) : InWindow(t)
    /\ (variant = "id" /\ ~failed) =>
         \A t \in Range(trades) : t \in Range(returned) <=> InWindow(t)
    /\ variant = "time" => \A t \in Range(trades) : InWindow(t)

ReturnedInWindowWitness ==
  /\ pc = "fetched"
  /\ variant = "id"
  /\ ~failed
  /\ returned # <<>>
  /\ \E t \in Range(trades) : t.T > end_time


====
